---- MODULE Spec2Model ----
(***************************************************************************)
(* A model of the channel router of nextpnr (common/channel_router.cc):    *)
(* the graph builder setup_nodes, the net record builder setup_nets, the   *)
(* binding map (bind_node_internal, unbind_node_internal, ripup_arc) and   *)
(* the node cost model.  The arc search and the outer negotiated           *)
(* congestion loop are not part of channel_router.cc; they are modelled    *)
(* from sections 4.5 to 4.7 of the design document and use the source's    *)
(* operations for everything that touches the binding map.                 *)
(*                                                                         *)
(* A ChannelNode is the triple <<x, y, type>>.                             *)
(***************************************************************************)
EXTENDS Integers, Sequences, FiniteSets, TLC

VARIABLES
    \* ---- setup_nodes (specification SpecGraph)
    g_width,        \* g->get_width()
    g_height,       \* g->get_height()
    g_channels,     \* g->get_channels(): the device template
    nodes,          \* nodes[y*width+x][t] = [downhill, uphill]
    sn_pos,         \* position of the loop nest of setup_nodes: <<y, x, t, k>>
    sn_status,      \* "building" | "done" | "failed"
    \* ---- setup_nets (specification SpecNets)
    ctx_nets,       \* ctx->nets in canonical name order: a sequence of NetInfo
    net_udata,      \* NetInfo::udata of each net of ctx_nets
    nets_by_udata,  \* nets_by_udata[i]: an index into ctx_nets, or NullNet
    nets,           \* nets[i]: PerNetData
    ns_i,           \* the local i of setup_nets
    ns_k,           \* the net of sorted(ctx->nets) the loop is at (from 1)
    ns_status,      \* "building" | "done"
    \* ---- the binding map (specifications SpecBind, SpecArcs, Spec)
    bound,          \* bound[n][net] = [use_count, uphill_node]: PerNodeData::bound_nets
    bind_log,       \* history: per node and net, the uphills of the binds of the entry
    bind_err,       \* "none", or the NPNR_ASSERT / at() that ended the run
    \* ---- routing (specifications SpecArcs, Spec)
    hist_cong_cost, \* PerNodeData::hist_cong_cost of each node
    unavailable,    \* the nodes with PerNodeData::unavailable
    reserved_net,   \* PerNodeData::reserved_net of each node, -1 for none
    curr_cong_weight,
    arc_path,       \* history: the path each routed arc was bound on, driver first
    route_count,    \* history: the number of arcs routed so far
    last_op,        \* history: the last operation on the binding map
    \* ---- the outer loop (specification Spec)
    iter,           \* the outer iteration, from 1
    run_pos,        \* the arc of the iteration's visiting order the loop is at
    run_status,     \* "routing" | "Success" | "Failure"
    enqueued,       \* history: <<net, node>> for every node a search of net enqueued
    \* ---- the search queue (specification SpecQueue)
    pq,             \* the entries of the priority queue
    pq_top,         \* <<e>> for the entry the last pop took, <<>> after a push
    \* ---- Settings (specification SpecSettings)
    settings,       \* ctx->settings: the string stored under each key
    last_get,       \* the last call of Settings::get and what it returned
    held            \* history: the integer each key was given by set or by its first get

graph_vars == <<g_width, g_height, g_channels, nodes, sn_pos, sn_status>>
nets_vars == <<ctx_nets, net_udata, nets_by_udata, nets, ns_i, ns_k, ns_status>>
bind_vars == <<bound, bind_log, bind_err>>
route_vars == <<hist_cong_cost, unavailable, reserved_net, curr_cong_weight,
                arc_path, route_count, last_op>>
run_vars == <<iter, run_pos, run_status, enqueued>>
queue_vars == <<pq, pq_top>>
settings_vars == <<settings, last_get, held>>
vars == <<graph_vars, nets_vars, bind_vars, route_vars, run_vars, queue_vars, settings_vars>>

\* What the actions of one part of the router leave alone
graph_others == <<nets_vars, bind_vars, route_vars, run_vars, queue_vars, settings_vars>>
nets_others == <<graph_vars, bind_vars, route_vars, run_vars, queue_vars, settings_vars>>
bind_others == <<graph_vars, nets_vars, route_vars, run_vars, queue_vars, settings_vars>>
route_others == <<graph_vars, queue_vars, settings_vars>>
queue_others == <<graph_vars, nets_vars, bind_vars, route_vars, run_vars, settings_vars>>
settings_others == <<graph_vars, nets_vars, bind_vars, route_vars, run_vars, queue_vars>>

----------------------------------------------------------------------------
(* Bounds of the model *)

MaxW == 2
MaxH == 2
MaxAlong == 1
MaxNets == 2
MaxUsers == 2
RouteW == 2
RouteH == 1
MaxUse == 2
MaxArcs == 2
MaxRoutes == 3

----------------------------------------------------------------------------
(* ChannelNode and the device template *)

DIR_EAST == "EAST"
DIR_WEST == "WEST"
DIR_NORTH == "NORTH"
DIR_SOUTH == "SOUTH"
Dirs == {DIR_EAST, DIR_WEST, DIR_NORTH, DIR_SOUTH}

ChannelNode(x, y, type) == <<x, y, type>>
NodeX(n) == n[1]
NodeY(n) == n[2]
NodeType(n) == n[3]

\* A downhill template of a channel type
DownhillTemplates(ntypes) ==
    [src_along : 0..MaxAlong, dst_type : 0..(ntypes - 1), dst_along : 0..MaxAlong]

\* The channel types of a device with ntypes types, each with no downhill
\* template, one, or the same junction within the cell listed twice; types
\* are numbered from 0 as in channel_types
ChannelTypes(ntypes) ==
    [dir : Dirs, length : {MaxAlong}, width : {1}, cost : {1},
     downhill : {<<>>} \cup {<<d>> : d \in DownhillTemplates(ntypes)}
                \cup {<<d, d>> : d \in {e \in DownhillTemplates(ntypes) :
                                            e.src_along = 0 /\ e.dst_along = 0}}]

TypeCounts == {1, 2}

Templates ==
    UNION {[0..(nt - 1) -> ChannelTypes(nt)] : nt \in TypeCounts}

NumTypes(channels) == Cardinality(DOMAIN channels)

\* Is (x, y) a coordinate of the grid
InGrid(w, h, x, y) == x >= 0 /\ x < w /\ y >= 0 /\ y < h

----------------------------------------------------------------------------
(* setup_nodes *)

\* The displacement of the switch statements of setup_nodes: the start of a
\* channel of direction dir that is `along` units into its run at (x, y)
Displace(dir, x, y, along) ==
    CASE dir = DIR_EAST -> <<x - along, y>>
      [] dir = DIR_WEST -> <<x + along, y>>
      [] dir = DIR_NORTH -> <<x, y - along>>
      [] dir = DIR_SOUTH -> <<x, y + along>>

EmptyNode == [downhill |-> <<>>, uphill |-> <<>>]

\* nodes after the resize loops of setup_nodes
EmptyNodes(w, h, channels) ==
    [i \in 0..(w * h - 1) |-> [t \in DOMAIN channels |-> EmptyNode]]

\* std::vector::at of the outer vector: the flat index must be in range;
\* the coordinates themselves are not looked at
SlotInRange(nd, w, x, y, t) ==
    /\ (y * w + x) \in DOMAIN nd
    /\ t \in DOMAIN nd[y * w + x]

\* The loop body that stores the downhill neighbour only
SetupEdgeDownhillOnly(nd, w, channels, x, y, t, dh) ==
    LET c == channels[t]
        start == Displace(c.dir, x, y, dh.src_along)
    IN  IF ~(dh.src_along <= c.length) \/ dh.dst_type \notin DOMAIN channels
        THEN [ok |-> FALSE, nodes |-> nd]
        ELSE
        LET d == channels[dh.dst_type]
            end == Displace(d.dir, x, y, dh.dst_along)
            si == start[2] * w + start[1]
        IN  IF \/ ~(dh.dst_along <= d.length)
               \/ ~SlotInRange(nd, w, start[1], start[2], t)
               \/ ~SlotInRange(nd, w, end[1], end[2], dh.dst_type)
            THEN [ok |-> FALSE, nodes |-> nd]
            ELSE [ok |-> TRUE,
                  nodes |-> [nd EXCEPT ![si][t].downhill =
                                Append(@, ChannelNode(end[1], end[2], dh.dst_type))]]

\* One pass of the innermost loop body of setup_nodes for cell (x, y), type
\* t and downhill template dh.  The result is [ok, nodes]; ok is FALSE when
\* an NPNR_ASSERT fails or an at() throws, and nodes is then as it was.
SetupEdge(nd, w, channels, x, y, t, dh) ==
    LET c == channels[t]
        start == Displace(c.dir, x, y, dh.src_along)
    IN  IF ~(dh.src_along <= c.length) \/ dh.dst_type \notin DOMAIN channels
        THEN [ok |-> FALSE, nodes |-> nd]
        ELSE
        LET d == channels[dh.dst_type]
            end == Displace(d.dir, x, y, dh.dst_along)
            si == start[2] * w + start[1]
            di == end[2] * w + end[1]
        IN  IF \/ ~(dh.dst_along <= d.length)
               \/ ~SlotInRange(nd, w, start[1], start[2], t)
               \/ ~SlotInRange(nd, w, end[1], end[2], dh.dst_type)
            THEN [ok |-> FALSE, nodes |-> nd]
            ELSE
            LET nd1 == [nd EXCEPT ![si][t].downhill =
                           Append(@, ChannelNode(end[1], end[2], dh.dst_type))]
                nd2 == [nd1 EXCEPT ![di][dh.dst_type].uphill =
                           Append(@, ChannelNode(start[1], start[2], t))]
            IN  [ok |-> TRUE, nodes |-> nd2]

\* The loop nest "for y, for x, for t, for dh" as positions <<y, x, t, k>>
\* with k the index of dh in channels[t].downhill; Advance gives the next
\* position whose k names a template, or <<>> at the end of the nest
RECURSIVE NormPos(_, _, _, _)
NormPos(w, h, channels, p) ==
    LET y == p[1]
        x == p[2]
        t == p[3]
        k == p[4]
    IN  IF y >= h THEN <<>>
        ELSE IF x >= w THEN NormPos(w, h, channels, <<y + 1, 0, 0, 1>>)
        ELSE IF t >= NumTypes(channels) THEN NormPos(w, h, channels, <<y, x + 1, 0, 1>>)
        ELSE IF k > Len(channels[t].downhill) THEN NormPos(w, h, channels, <<y, x, t + 1, 1>>)
        ELSE p

FirstPos(w, h, channels) == NormPos(w, h, channels, <<0, 0, 0, 1>>)
NextPos(w, h, channels, p) == NormPos(w, h, channels, <<p[1], p[2], p[3], p[4] + 1>>)

\* The variables of setup_nets while another part of the router is looked at
IdleNets ==
    /\ ctx_nets = <<>>
    /\ net_udata = <<>>
    /\ nets_by_udata = <<>>
    /\ nets = <<>>
    /\ ns_i = 0
    /\ ns_k = 0
    /\ ns_status = "idle"

\* The binding map while setup is looked at
IdleBind ==
    /\ bound = <<>>
    /\ bind_log = <<>>
    /\ bind_err = "idle"

\* The search queue and the settings while they are not looked at
IdleQueue ==
    /\ pq = {}
    /\ pq_top = <<>>

IdleSettings ==
    /\ settings = <<>>
    /\ last_get = <<>>
    /\ held = <<>>

\* The outer loop while it is not run
IdleRun ==
    /\ iter = 0
    /\ run_pos = 0
    /\ run_status = "idle"
    /\ enqueued = {}

\* The router's state while setup or the binding map alone is looked at
IdleRoute ==
    /\ hist_cong_cost = <<>>
    /\ unavailable = {}
    /\ reserved_net = <<>>
    /\ curr_cong_weight = 0
    /\ arc_path = <<>>
    /\ route_count = 0
    /\ last_op = <<>>
    /\ IdleRun

InitGraph ==
    /\ IdleQueue
    /\ IdleSettings
    /\ IdleNets
    /\ IdleBind
    /\ IdleRoute
    /\ g_width \in 1..MaxW
    /\ g_height \in 1..MaxH
    /\ g_channels \in Templates
    /\ nodes = EmptyNodes(g_width, g_height, g_channels)
    /\ sn_pos = FirstPos(g_width, g_height, g_channels)
    /\ sn_status = "building"

\* One iteration of the innermost loop of setup_nodes that stores its edge
SetupNodesStep ==
    /\ sn_status = "building"
    /\ sn_pos # <<>>
    /\ LET r == SetupEdge(nodes, g_width, g_channels, sn_pos[2], sn_pos[1], sn_pos[3],
                          g_channels[sn_pos[3]].downhill[sn_pos[4]])
       IN  /\ r.ok
           /\ nodes' = r.nodes
           /\ sn_pos' = NextPos(g_width, g_height, g_channels, sn_pos)
           /\ sn_status' = "building"
    /\ UNCHANGED <<g_width, g_height, g_channels>>
    /\ UNCHANGED graph_others

\* One iteration that fails: an NPNR_ASSERT or an at() throws out of
\* setup_nodes and what was stored so far stays stored
SetupNodesFail ==
    /\ sn_status = "building"
    /\ sn_pos # <<>>
    /\ ~SetupEdge(nodes, g_width, g_channels, sn_pos[2], sn_pos[1], sn_pos[3],
                  g_channels[sn_pos[3]].downhill[sn_pos[4]]).ok
    /\ sn_status' = "failed"
    /\ UNCHANGED <<g_width, g_height, g_channels, nodes, sn_pos>>
    /\ UNCHANGED graph_others

\* The loop nest is over: setup_nodes returns
SetupNodesDone ==
    /\ sn_status = "building"
    /\ sn_pos = <<>>
    /\ sn_status' = "done"
    /\ UNCHANGED <<g_width, g_height, g_channels, nodes, sn_pos>>
    /\ UNCHANGED graph_others

NextGraph == SetupNodesStep \/ SetupNodesFail \/ SetupNodesDone

SpecGraph == InitGraph /\ [][NextGraph]_vars

----------------------------------------------------------------------------
(* Graph building and the grid (C5) *)

\* Some downhill template, instantiated at some (x, y, t) of the grid, starts
\* or ends outside the grid
HasOutOfGridEdge(w, h, channels) ==
    \E x \in 0..(w - 1), y \in 0..(h - 1), t \in DOMAIN channels :
        \E k \in DOMAIN channels[t].downhill :
            LET dh == channels[t].downhill[k]
                start == Displace(channels[t].dir, x, y, dh.src_along)
                end == Displace(channels[dh.dst_type].dir, x, y, dh.dst_along)
            IN  ~InGrid(w, h, start[1], start[2]) \/ ~InGrid(w, h, end[1], end[2])

\* Every neighbour stored in a downhill or uphill list is a coordinate of the grid
StoredNeighboursInGrid ==
    \A i \in DOMAIN nodes : \A t \in DOMAIN nodes[i] :
        /\ \A j \in DOMAIN nodes[i][t].downhill :
              InGrid(g_width, g_height, nodes[i][t].downhill[j][1], nodes[i][t].downhill[j][2])
        /\ \A j \in DOMAIN nodes[i][t].uphill :
              InGrid(g_width, g_height, nodes[i][t].uphill[j][1], nodes[i][t].uphill[j][2])

\* C5: a device template and grid with an edge outside the grid never
\* completes setup_nodes, and no neighbour with a coordinate outside the
\* grid is ever stored in a downhill or an uphill list.
C5_OutOfGridRejected ==
    /\ HasOutOfGridEdge(g_width, g_height, g_channels) => sn_status # "done"
    /\ StoredNeighboursInGrid

\* The first half of C5 alone: such a template never completes setup_nodes
C5_NeverCompletes ==
    HasOutOfGridEdge(g_width, g_height, g_channels) => sn_status # "done"

----------------------------------------------------------------------------
(* setup_nets *)

NoDriver == <<>>
NullNet == 0

\* The nodes the channel graph provider places drivers and sinks on
NetNodes == {ChannelNode(0, 0, 0), ChannelNode(1, 1, 0)}

\* A NetInfo as setup_nets reads it: driver is NoDriver when driver.cell is
\* nullptr and else get_source_node(ni); users[j] is get_sink_node(ni, usr)
NetInfos ==
    [driver : {NoDriver} \cup NetNodes,
     users : UNION {[1..n -> NetNodes] : n \in 0..MaxUsers}]

\* The netlists: ctx->nets as sorted(ctx->nets) walks it
Netlists == UNION {[1..n -> NetInfos] : n \in 1..MaxNets}

IntMax == 2147483647
IntMin == 0 - IntMax - 1

Min2(a, b) == IF a < b THEN a ELSE b
Max2(a, b) == IF a > b THEN a ELSE b
Abs(a) == IF a < 0 THEN 0 - a ELSE a

\* int / int of C++ for a positive divisor: the quotient truncated toward zero
IntDiv(a, b) == IF a >= 0 THEN a \div b ELSE 0 - ((0 - a) \div b)

\* ChannelNode() and the value-initialised PerArcData and PerNetData that
\* resize() creates
DefaultNode == ChannelNode(0, 0, 0)
ZeroBounds == [x0 |-> 0, y0 |-> 0, x1 |-> 0, y1 |-> 0]
ZeroArc == [sink_node |-> DefaultNode, bb |-> ZeroBounds, routed |-> FALSE]
ZeroNet ==
    [src_node |-> DefaultNode, arcs |-> <<>>, bb |-> ZeroBounds,
     cx |-> 0, cy |-> 0, hpwl |-> 0]

\* arcs.resize(n): the first n arcs kept, new ones value-initialised
ResizeArcs(arcs, n) == [j \in 1..n |-> IF j <= Len(arcs) THEN arcs[j] ELSE ZeroArc]

\* Lines 182 to 190: the part of the loop body before the driver test
NetStart(nd, ni) ==
    [nd EXCEPT !.arcs = ResizeArcs(nd.arcs, Len(ni.users)),
               !.bb = [x0 |-> IntMax, x1 |-> IntMin, y0 |-> IntMax, y1 |-> IntMin],
               !.cx = 0,
               !.cy = 0]

\* Lines 192 to 195: a net without a driver
NetNoDriver(nd) == [nd EXCEPT !.hpwl = 0]

\* Lines 197 to 204: the driver
NetDriver(nd, src_node) ==
    [nd EXCEPT !.src_node = src_node,
               !.cx = nd.cx + NodeX(src_node),
               !.cy = nd.cy + NodeY(src_node),
               !.bb = [x0 |-> NodeX(src_node), x1 |-> NodeX(src_node),
                       y0 |-> NodeY(src_node), y1 |-> NodeY(src_node)]]

\* One user of the net, the net bounding box left as it is
NetUserArcOnly(nd, j, sink_node) ==
    [nd EXCEPT !.arcs[j].sink_node = sink_node,
               !.arcs[j].bb = [x0 |-> Min2(NodeX(nd.src_node), NodeX(sink_node)),
                               x1 |-> Max2(NodeX(nd.src_node), NodeX(sink_node)),
                               y0 |-> Min2(NodeY(nd.src_node), NodeY(sink_node)),
                               y1 |-> Max2(NodeY(nd.src_node), NodeY(sink_node))],
               !.cx = nd.cx + NodeX(sink_node),
               !.cy = nd.cy + NodeY(sink_node)]

\* Lines 207 to 223: one user of the net
NetUser(nd, j, sink_node) ==
    [nd EXCEPT !.arcs[j].sink_node = sink_node,
               !.arcs[j].bb = [x0 |-> Min2(NodeX(nd.src_node), NodeX(sink_node)),
                               x1 |-> Max2(NodeX(nd.src_node), NodeX(sink_node)),
                               y0 |-> Min2(NodeY(nd.src_node), NodeY(sink_node)),
                               y1 |-> Max2(NodeY(nd.src_node), NodeY(sink_node))],
               !.bb = [x0 |-> Min2(nd.bb.x0, NodeX(sink_node)),
                       x1 |-> Max2(nd.bb.x1, NodeX(sink_node)),
                       y0 |-> Min2(nd.bb.y0, NodeY(sink_node)),
                       y1 |-> Max2(nd.bb.y1, NodeY(sink_node))],
               !.cx = nd.cx + NodeX(sink_node),
               !.cy = nd.cy + NodeY(sink_node)]

\* The loop over the users, from user j on
RECURSIVE NetUsers(_, _, _)
NetUsers(nd, users, j) ==
    IF j > Len(users) THEN nd
    ELSE NetUsers(NetUser(nd, j, users[j]), users, j + 1)

\* Lines 225 to 228: hpwl and the centroid
NetFinish(nd, nusers) ==
    [nd EXCEPT !.hpwl = Max2(Abs(nd.bb.y1 - nd.bb.y0) + Abs(nd.bb.x1 - nd.bb.x0), 1),
               !.cx = IntDiv(nd.cx, nusers + 1),
               !.cy = IntDiv(nd.cy, nusers + 1)]

\* The record the loop body leaves in nets[i] for the net ni
NetRecord(nd, ni) ==
    IF ni.driver = NoDriver
    THEN NetNoDriver(NetStart(nd, ni))
    ELSE NetFinish(NetUsers(NetDriver(NetStart(nd, ni), ni.driver), ni.users, 1),
                   Len(ni.users))

\* Does the loop body reach the i++ of line 233: a net without a driver
\* leaves the body at the continue of line 194
ReachesIncrement(ni) == ni.driver # NoDriver

\* The variables of setup_nodes while another part of the router is looked at
IdleGraph ==
    /\ g_width = 0
    /\ g_height = 0
    /\ g_channels = <<>>
    /\ nodes = <<>>
    /\ sn_pos = <<>>
    /\ sn_status = "idle"

\* setup_nets up to the loop: both vectors resized to ctx->nets.size()
InitNets ==
    /\ IdleQueue
    /\ IdleSettings
    /\ IdleGraph
    /\ IdleBind
    /\ IdleRoute
    /\ ctx_nets \in Netlists
    /\ net_udata = [k \in DOMAIN ctx_nets |-> 0]
    /\ nets_by_udata = [i \in 0..(Len(ctx_nets) - 1) |-> NullNet]
    /\ nets = [i \in 0..(Len(ctx_nets) - 1) |-> ZeroNet]
    /\ ns_i = 0
    /\ ns_k = 1
    /\ ns_status = "building"

\* A net with a driver: the whole loop body, ending in the i++ of line 233
SetupNetDriven ==
    /\ ns_status = "building"
    /\ ns_k <= Len(ctx_nets)
    /\ ReachesIncrement(ctx_nets[ns_k])
    /\ net_udata' = [net_udata EXCEPT ![ns_k] = ns_i]
    /\ nets_by_udata' = [nets_by_udata EXCEPT ![ns_i] = ns_k]
    /\ nets' = [nets EXCEPT ![ns_i] = NetRecord(nets[ns_i], ctx_nets[ns_k])]
    /\ ns_i' = ns_i + 1
    /\ ns_k' = ns_k + 1
    /\ UNCHANGED <<ctx_nets, ns_status>>
    /\ UNCHANGED nets_others

\* A net without a driver: the loop body up to the continue of line 194,
\* which goes to the next net with i as it is
SetupNetUndriven ==
    /\ ns_status = "building"
    /\ ns_k <= Len(ctx_nets)
    /\ ~ReachesIncrement(ctx_nets[ns_k])
    /\ net_udata' = [net_udata EXCEPT ![ns_k] = ns_i]
    /\ nets_by_udata' = [nets_by_udata EXCEPT ![ns_i] = ns_k]
    /\ nets' = [nets EXCEPT ![ns_i] = NetRecord(nets[ns_i], ctx_nets[ns_k])]
    /\ ns_i' = ns_i
    /\ ns_k' = ns_k + 1
    /\ UNCHANGED <<ctx_nets, ns_status>>
    /\ UNCHANGED nets_others

\* The loop is over: setup_nets returns
SetupNetsDone ==
    /\ ns_status = "building"
    /\ ns_k > Len(ctx_nets)
    /\ ns_status' = "done"
    /\ UNCHANGED <<ctx_nets, net_udata, nets_by_udata, nets, ns_i, ns_k>>
    /\ UNCHANGED nets_others

NextNets == SetupNetDriven \/ SetupNetUndriven \/ SetupNetsDone

SpecNets == InitNets /\ [][NextNets]_vars

----------------------------------------------------------------------------
(* The ids and the records of setup_nets (C6, C7) *)

\* The record setup_nets builds from the net ni alone
RecordOf(ni) == NetRecord(ZeroNet, ni)

\* C6: after setup_nets the k-th net in canonical order has udata k-1,
\* distinct nets have distinct udata, nets_by_udata[udata] is the net and
\* nets[udata] is the record built from it, drivers or not.
C6_DenseIds ==
    ns_status = "done" =>
        \A k \in DOMAIN ctx_nets :
            /\ net_udata[k] = k - 1
            /\ \A k2 \in DOMAIN ctx_nets : k2 # k => net_udata[k2] # net_udata[k]
            /\ nets_by_udata[net_udata[k]] = k
            /\ nets[net_udata[k]] = RecordOf(ctx_nets[k])

\* C7: after setup_nets the record of a net has hpwl = 0 exactly when the
\* net has no driver, and hpwl >= 1 when it has one.
C7_HpwlZeroIffNoDriver ==
    ns_status = "done" =>
        \A k \in DOMAIN ctx_nets :
            /\ (nets[net_udata[k]].hpwl = 0) <=> (ctx_nets[k].driver = NoDriver)
            /\ ctx_nets[k].driver # NoDriver => nets[net_udata[k]].hpwl >= 1

----------------------------------------------------------------------------
(* The channel graph the router runs on *)

\* setup_nodes from position p to the end of its loop nest: [ok, nodes]
RECURSIVE SetupNodesFrom(_, _, _, _, _)
SetupNodesFrom(nd, w, h, channels, p) ==
    IF p = <<>> THEN [ok |-> TRUE, nodes |-> nd]
    ELSE LET r == SetupEdge(nd, w, channels, p[2], p[1], p[3], channels[p[3]].downhill[p[4]])
         IN  IF r.ok THEN SetupNodesFrom(r.nodes, w, h, channels, NextPos(w, h, channels, p))
             ELSE r

\* All of setup_nodes
SetupNodes(w, h, channels) ==
    SetupNodesFrom(EmptyNodes(w, h, channels), w, h, channels, FirstPos(w, h, channels))

Junction(dst_type) == [src_along |-> 0, dst_type |-> dst_type, dst_along |-> 0]

\* The device the router is run on.  setup_nodes completes only for
\* templates whose junctions have src_along = dst_along = 0 (any other
\* offset leaves the grid at a border cell), so every edge joins two
\* channel types of one cell: 0 -> 1 -> 3 and 0 -> 2 -> 3 in each cell,
\* the way through type 2 the dearer one.
RouteChannels ==
    (0 :> [dir |-> DIR_EAST, length |-> 1, width |-> 1, cost |-> 1,
           downhill |-> <<Junction(1), Junction(2)>>]) @@
    (1 :> [dir |-> DIR_NORTH, length |-> 1, width |-> 1, cost |-> 1,
           downhill |-> <<Junction(3)>>]) @@
    (2 :> [dir |-> DIR_SOUTH, length |-> 1, width |-> 1, cost |-> 2,
           downhill |-> <<Junction(3)>>]) @@
    (3 :> [dir |-> DIR_WEST, length |-> 1, width |-> 2, cost |-> 1,
           downhill |-> <<>>])

RouteGraph == SetupNodes(RouteW, RouteH, RouteChannels)

RouteNodes ==
    {ChannelNode(x, y, t) : x \in 0..(RouteW - 1), y \in 0..(RouteH - 1),
                            t \in DOMAIN RouteChannels}

\* node_data(node): the NPNR_ASSERTs on the coordinates and the at() on the type
NodeDataOk(node) ==
    /\ NodeX(node) >= 0 /\ NodeX(node) < RouteW
    /\ NodeY(node) >= 0 /\ NodeY(node) < RouteH
    /\ NodeType(node) \in DOMAIN RouteChannels

\* node_data(node).downhill
Downhill(node) == RouteGraph.nodes[NodeY(node) * RouteW + NodeX(node)][NodeType(node)].downhill

\* node_data(node).uphill
Uphill(node) == RouteGraph.nodes[NodeY(node) * RouteW + NodeX(node)][NodeType(node)].uphill

----------------------------------------------------------------------------
(* bind_node_internal, unbind_node_internal *)

NetIds == {0, 1}

Unbound == [n \in RouteNodes |-> <<>>]

IsBound(b, net, node) == net \in DOMAIN b[node]

\* bound_nets[net] of bind_node_internal: operator[] creates the entry
\* (0, ChannelNode()) when there is none
EntryOrNew(b, net, node) ==
    IF IsBound(b, net, node) THEN b[node][net]
    ELSE [use_count |-> 0, uphill_node |-> DefaultNode]

\* b with the entry of net at node set to e
WithEntry(b, net, node, e) ==
    [b EXCEPT ![node] = [k \in (DOMAIN b[node]) \cup {net} |-> IF k = net THEN e ELSE b[node][k]]]

\* b with the entry of net at node erased
WithoutEntry(b, net, node) ==
    [b EXCEPT ![node] = [k \in (DOMAIN b[node]) \ {net} |-> b[node][k]]]

\* bind_node_internal with the wrong operand stored as the uphill
BindStoresNode(b, net, node, uphill) ==
    IF ~NodeDataOk(node) THEN [ok |-> FALSE, bound |-> b]
    ELSE LET e == EntryOrNew(b, net, node)
             n == e.use_count + 1
         IN  IF n = 1
             THEN [ok |-> TRUE,
                   bound |-> WithEntry(b, net, node, [use_count |-> n, uphill_node |-> node])]
             ELSE [ok |-> e.uphill_node = uphill,
                   bound |-> WithEntry(b, net, node, [e EXCEPT !.use_count = n])]

\* bind_node_internal that stores the uphill on every call and never asserts
BindOverwrites(b, net, node, uphill) ==
    IF ~NodeDataOk(node) THEN [ok |-> FALSE, bound |-> b]
    ELSE LET e == EntryOrNew(b, net, node)
         IN  [ok |-> TRUE,
              bound |-> WithEntry(b, net, node,
                                  [use_count |-> e.use_count + 1, uphill_node |-> uphill])]

\* bind_node_internal(net, node, uphill): [ok, bound]; ok is FALSE when an
\* NPNR_ASSERT fails, which is after ++b.first has been done
bind_node_internal(b, net, node, uphill) ==
    IF ~NodeDataOk(node) THEN [ok |-> FALSE, bound |-> b]
    ELSE LET e == EntryOrNew(b, net, node)
             n == e.use_count + 1
         IN  IF n = 1
             THEN [ok |-> TRUE,
                   bound |-> WithEntry(b, net, node, [use_count |-> n, uphill_node |-> uphill])]
             ELSE [ok |-> e.uphill_node = uphill,
                   bound |-> WithEntry(b, net, node, [e EXCEPT !.use_count = n])]

\* unbind_node_internal that erases the entry whatever its count
UnbindErases(b, net, node) ==
    IF ~NodeDataOk(node) \/ ~IsBound(b, net, node) THEN [ok |-> FALSE, bound |-> b]
    ELSE [ok |-> TRUE, bound |-> WithoutEntry(b, net, node)]

\* unbind_node_internal that never erases the entry
UnbindKeeps(b, net, node) ==
    IF ~NodeDataOk(node) \/ ~IsBound(b, net, node) THEN [ok |-> FALSE, bound |-> b]
    ELSE [ok |-> TRUE,
          bound |-> WithEntry(b, net, node,
                              [b[node][net] EXCEPT !.use_count = b[node][net].use_count - 1])]

\* unbind_node_internal(net, node): [ok, bound]; ok is FALSE when
\* bound_nets.at(net) throws
unbind_node_internal(b, net, node) ==
    IF ~NodeDataOk(node) \/ ~IsBound(b, net, node) THEN [ok |-> FALSE, bound |-> b]
    ELSE LET n == b[node][net].use_count - 1
         IN  IF n = 0
             THEN [ok |-> TRUE, bound |-> WithoutEntry(b, net, node)]
             ELSE [ok |-> TRUE,
                   bound |-> WithEntry(b, net, node, [b[node][net] EXCEPT !.use_count = n])]

----------------------------------------------------------------------------
(* The binding map under any sequence of calls (specification SpecBind) *)

\* The nodes and uphills the calls are made with
ApiNodes == {ChannelNode(0, 0, 1), ChannelNode(0, 0, 3)}
ApiUphills == {ChannelNode(0, 0, 0), ChannelNode(0, 0, 1), ChannelNode(0, 0, 2)}

NoLog == [n \in RouteNodes |-> <<>>]

\* The history of an entry: the uphill of the bind that created it and the
\* uphills of the binds that completed on it since
LogBind(log, net, node, uphill) ==
    IF net \in DOMAIN log[node]
    THEN [log EXCEPT ![node][net].later = @ \cup {uphill}]
    ELSE [log EXCEPT ![node] = [k \in (DOMAIN log[node]) \cup {net} |->
             IF k = net THEN [first |-> uphill, later |-> {}] ELSE log[node][k]]]

\* The history follows the map: an erased entry has none
LogFollow(log, b) ==
    [n \in RouteNodes |-> [k \in (DOMAIN log[n]) \cap (DOMAIN b[n]) |-> log[n][k]]]

InitBind ==
    /\ IdleQueue
    /\ IdleSettings
    /\ IdleGraph
    /\ IdleNets
    /\ IdleRoute
    /\ bound = Unbound
    /\ bind_log = NoLog
    /\ bind_err = "none"

\* A call of bind_node_internal that returns
Bind(net, node, uphill) ==
    /\ bind_err = "none"
    /\ EntryOrNew(bound, net, node).use_count < MaxUse
    /\ LET r == bind_node_internal(bound, net, node, uphill)
       IN  /\ r.ok
           /\ bound' = r.bound
           /\ bind_log' = LogBind(bind_log, net, node, uphill)
    /\ UNCHANGED bind_err
    /\ UNCHANGED bind_others

\* A call of bind_node_internal whose NPNR_ASSERT fails: the run ends
BindAsserts(net, node, uphill) ==
    /\ bind_err = "none"
    /\ EntryOrNew(bound, net, node).use_count < MaxUse
    /\ LET r == bind_node_internal(bound, net, node, uphill)
       IN  /\ ~r.ok
           /\ bound' = r.bound
    /\ bind_err' = "assert"
    /\ UNCHANGED bind_log
    /\ UNCHANGED bind_others

\* A call of unbind_node_internal on an entry
Unbind(net, node) ==
    /\ bind_err = "none"
    /\ LET r == unbind_node_internal(bound, net, node)
       IN  /\ r.ok
           /\ bound' = r.bound
           /\ bind_log' = LogFollow(bind_log, r.bound)
    /\ UNCHANGED bind_err
    /\ UNCHANGED bind_others

\* A call of unbind_node_internal without an entry: at() throws
UnbindThrows(net, node) ==
    /\ bind_err = "none"
    /\ ~unbind_node_internal(bound, net, node).ok
    /\ bind_err' = "out_of_range"
    /\ UNCHANGED <<bound, bind_log>>
    /\ UNCHANGED bind_others

NextBind ==
    \/ \E net \in NetIds, node \in ApiNodes, uphill \in ApiUphills : Bind(net, node, uphill)
    \/ \E net \in NetIds, node \in ApiNodes, uphill \in ApiUphills : BindAsserts(net, node, uphill)
    \/ \E net \in NetIds, node \in ApiNodes : Unbind(net, node)
    \/ \E net \in NetIds, node \in ApiNodes : UnbindThrows(net, node)

SpecBind == InitBind /\ [][NextBind]_vars

----------------------------------------------------------------------------
(* One uphill per net and node (C3) *)

\* C3: the uphill stored for a net at a node is the uphill of the bind that
\* took the use_count from 0 to 1, and every later bind of the entry that
\* completed passed that same uphill.
C3_UphillConsistent ==
    \A n \in RouteNodes : \A net \in DOMAIN bound[n] :
        /\ net \in DOMAIN bind_log[n]
        /\ bound[n][net].uphill_node = bind_log[n][net].first
        /\ bind_log[n][net].later \subseteq {bind_log[n][net].first}

\* An entry a second bind has completed on
C3_Witness ==
    \E n \in ApiNodes : \E net \in DOMAIN bound[n] :
        /\ bound[n][net].use_count = 2
        /\ bind_log[n][net].later # {}
        /\ bind_err = "none"

----------------------------------------------------------------------------
(* The node cost model *)

\* ChannelRouterCfg as the router is run here
bb_margin_x == 0
bb_margin_y == 0
bb_grow == 1
togo_cost_dx == 1
togo_cost_dy == 1
togo_cost_adder == 1
bias_cost_factor == 0
init_curr_cong == 1
init_hist_cong == 1
curr_cong_mult == 2

\* The float costs are counted in units of 1/CostScale, so that a cost
\* divided by 1 + source_uses stays a whole number of units for up to
\* three uses; the weights above are whole numbers
CostScale == 12

\* Lines 271 to 274 of present_node_cost: the nets at the node beyond its
\* width, with net_uid counted as bound
\* over_capacity without the term for the net itself
OverCapacityNoSelf(w, channel_type, net_uid) ==
    Cardinality(DOMAIN w) - (RouteChannels[channel_type].width - 1)

over_capacity(w, channel_type, net_uid) ==
    (Cardinality(DOMAIN w) - (RouteChannels[channel_type].width - 1))
        - (IF net_uid \in DOMAIN w THEN 1 ELSE 0)

\* present_node_cost(w, channel_type, net_uid) for the weight ccw
present_node_cost(w, channel_type, net_uid, ccw) ==
    IF over_capacity(w, channel_type, net_uid) <= 0
    THEN 1
    ELSE 1 + over_capacity(w, channel_type, net_uid) * ccw

\* hit_test_node with the box's border left out
HitTestInside(bb, n) ==
    /\ NodeX(n) > (bb.x0 - bb_margin_x) /\ NodeX(n) < (bb.x1 + bb_margin_x)
    /\ NodeY(n) > (bb.y0 - bb_margin_y) /\ NodeY(n) < (bb.y1 + bb_margin_y)

hit_test_node(bb, n) ==
    /\ NodeX(n) >= (bb.x0 - bb_margin_x) /\ NodeX(n) <= (bb.x1 + bb_margin_x)
    /\ NodeY(n) >= (bb.y0 - bb_margin_y) /\ NodeY(n) <= (bb.y1 + bb_margin_y)

\* The net's use_count at the node, 0 when it is not bound there
SourceUses(b, net, node) == IF IsBound(b, net, node) THEN b[node][net].use_count ELSE 0

\* score_node_for_arc, in units of 1/CostScale; cx is the search's view of
\* the router: the binding map b, the net, its record nd and user count,
\* and the weights
score_node_for_arc(cx, node) ==
    LET base_cost == RouteChannels[NodeType(node)].cost
        present_cost == present_node_cost(cx.b[node], NodeType(node), cx.net, cx.ccw)
        hist_cost == cx.hist[node]
        source_uses == SourceUses(cx.b, cx.net, node)
        bias_cost == bias_cost_factor *
            ((CostScale * base_cost * (Abs(NodeX(node) - cx.nd.cx) + Abs(NodeY(node) - cx.nd.cy)))
                \div (cx.users * cx.nd.hpwl))
    IN  ((CostScale * base_cost * hist_cost * present_cost) \div (1 + source_uses)) + bias_cost

\* get_togo_cost: base_cost is an int and so is 1 + source_uses
get_togo_cost(b, net, curr, sink) ==
    LET source_uses == SourceUses(b, net, curr)
        base_cost == togo_cost_dx * Abs(NodeX(curr) - NodeX(sink))
                     + togo_cost_dy * Abs(NodeY(curr) - NodeY(sink)) + togo_cost_adder
    IN  IntDiv(base_cost, 1 + source_uses)

----------------------------------------------------------------------------
(* The arc search (design document, section 4.5) *)

NumRouteTypes == Cardinality(DOMAIN RouteChannels)
NumRouteNodes == RouteW * RouteH * NumRouteTypes

\* The nodes in the order of the grid: the i-th node, i from 0
NodeAt(i) ==
    ChannelNode((i \div NumRouteTypes) % RouteW, (i \div NumRouteTypes) \div RouteW,
                i % NumRouteTypes)

\* The tag of the k-th enqueue of a search: a fixed pseudo-random sequence
seed == 1
RandTag(k) == ((seed + k) * 5 + 3) % 8

\* QueuedNode::Greater on entries [node, prev, cost, togo_cost, randtag]
Greater(lhs, rhs) ==
    IF lhs.cost + lhs.togo_cost = rhs.cost + rhs.togo_cost
    THEN lhs.randtag > rhs.randtag
    ELSE lhs.cost + lhs.togo_cost > rhs.cost + rhs.togo_cost

\* top() of std::priority_queue<QueuedNode, ..., Greater>: an entry that is
\* Greater than no other
Top(queue) == CHOOSE e \in queue : \A e2 \in queue : ~Greater(e, e2)

Untouched ==
    [dirty |-> FALSE, visited |-> FALSE, bwd |-> DefaultNode, cost |-> 0, togo_cost |-> 0]

\* Enqueue node with predecessor prev: visit becomes ENQUEUED
Enqueue(st, node, prev, cost, togo_cost) ==
    [queue |-> st.queue \cup {[node |-> node, prev |-> prev, cost |-> cost,
                               togo_cost |-> togo_cost, randtag |-> RandTag(st.k),
                               seq |-> st.k]},
     visit |-> [st.visit EXCEPT ![node] =
                   [dirty |-> TRUE, visited |-> FALSE, bwd |-> prev,
                    cost |-> cost, togo_cost |-> togo_cost]],
     k |-> st.k + 1]

\* The nodes a search starts from: the nodes bound to the net, and the driver
IsSeed(cx, n) == IsBound(cx.b, cx.net, n) \/ n = cx.nd.src_node

\* The predecessor of a seed: its uphill in the tree; the driver, when it is
\* not bound yet, is its own uphill
SeedPrev(cx, n) == IF IsBound(cx.b, cx.net, n) THEN cx.b[n][cx.net].uphill_node ELSE n

\* Enqueue the seeds with g = 0, from node i on
RECURSIVE SeedFrom(_, _, _)
SeedFrom(cx, st, i) ==
    IF i >= NumRouteNodes THEN st
    ELSE IF IsSeed(cx, NodeAt(i))
         THEN SeedFrom(cx, Enqueue(st, NodeAt(i), SeedPrev(cx, NodeAt(i)), 0,
                                   CostScale * get_togo_cost(cx.b, cx.net, NodeAt(i), cx.sink)),
                       i + 1)
         ELSE SeedFrom(cx, st, i + 1)

\* The bounding-box test alone
MayEnterInBox(cx, m) == hit_test_node(cx.bb, m)

\* May the search of cx.net enter m through a downhill edge
MayEnter(cx, m) ==
    /\ m \notin cx.unav
    /\ cx.resv[m] = -1 \/ cx.resv[m] = cx.net
    /\ hit_test_node(cx.bb, m)

\* Relax the edge from the popped entry e into m
Relax(cx, st, e, m) ==
    IF ~MayEnter(cx, m) \/ st.visit[m].visited THEN st
    ELSE LET g2 == e.cost + score_node_for_arc(cx, m)
             h2 == CostScale * get_togo_cost(cx.b, cx.net, m, cx.sink)
         IN  IF ~st.visit[m].dirty \/ g2 + h2 < st.visit[m].cost + st.visit[m].togo_cost
             THEN Enqueue(st, m, e.node, g2, h2)
             ELSE st

\* Relax the downhill edges of the popped entry e, from the j-th on
RECURSIVE RelaxFrom(_, _, _, _)
RelaxFrom(cx, st, e, j) ==
    IF j > Len(Downhill(e.node)) THEN st
    ELSE RelaxFrom(cx, Relax(cx, st, e, Downhill(e.node)[j]), e, j + 1)

\* The dirty list: the nodes a search has enqueued
Dirty(visit) == {n \in RouteNodes : visit[n].dirty}

\* Pop until the sink is closed or the queue is empty: [found, visit, touched]
RECURSIVE SearchLoop(_, _)
SearchLoop(cx, st) ==
    IF st.queue = {} THEN [found |-> FALSE, visit |-> st.visit, touched |-> Dirty(st.visit)]
    ELSE LET e == Top(st.queue)
             st1 == [st EXCEPT !.queue = @ \ {e}]
         IN  IF st1.visit[e.node].visited THEN SearchLoop(cx, st1)
             ELSE LET st2 == [st1 EXCEPT !.visit[e.node].visited = TRUE]
                  IN  IF e.node = cx.sink
                      THEN [found |-> TRUE, visit |-> st2.visit, touched |-> Dirty(st2.visit)]
                      ELSE SearchLoop(cx, RelaxFrom(cx, st2, e, 1))

\* One search of the arc of cx within the bounding box cx.bb
Search(cx) ==
    SearchLoop(cx, SeedFrom(cx, [queue |-> {}, visit |-> [n \in RouteNodes |-> Untouched],
                                 k |-> 0], 0))

\* The arc's bounding box grown by grow on every side
GrowBounds(bb, grow) ==
    [x0 |-> bb.x0 - grow, y0 |-> bb.y0 - grow, x1 |-> bb.x1 + grow, y1 |-> bb.y1 + grow]

\* The search of an arc as the outer loop runs it: on failure once more with
\* the bounding box grown by bb_grow
SearchWithRetry(cx) ==
    LET first == Search(cx)
        second == Search([cx EXCEPT !.bb = GrowBounds(cx.bb, bb_grow)])
    IN  IF first.found THEN first
        ELSE [second EXCEPT !.touched = @ \cup first.touched]

\* Walk back from cursor through bwd and bind each node with its
\* predecessor as uphill; the driver is bound with itself as uphill.
\* [ok, bound, path]: path is the nodes bound, driver first.
RECURSIVE BindPath(_, _, _, _, _, _)
BindPath(b, visit, net, src, cursor, fuel) ==
    IF fuel = 0 THEN [ok |-> FALSE, bound |-> b, path |-> <<>>]
    ELSE IF cursor = src
    THEN LET r == bind_node_internal(b, net, src, src)
         IN  [ok |-> r.ok, bound |-> r.bound, path |-> <<src>>]
    ELSE LET r == bind_node_internal(b, net, cursor, visit[cursor].bwd)
         IN  IF ~r.ok THEN [ok |-> FALSE, bound |-> r.bound, path |-> <<>>]
             ELSE LET rest == BindPath(r.bound, visit, net, src, visit[cursor].bwd, fuel - 1)
                  IN  [ok |-> rest.ok, bound |-> rest.bound,
                       path |-> IF rest.ok THEN Append(rest.path, cursor) ELSE <<>>]

----------------------------------------------------------------------------
(* ripup_arc *)

\* The loop of ripup_arc from cursor on: [ok, bound]; ok is FALSE when
\* bound_nets.at(net) throws, with the nodes before it unbound
RECURSIVE RipupWalk(_, _, _, _)
RipupWalk(b, net, src, cursor) ==
    IF cursor = src THEN [ok |-> TRUE, bound |-> b]
    ELSE IF ~NodeDataOk(cursor) \/ ~IsBound(b, net, cursor) THEN [ok |-> FALSE, bound |-> b]
    ELSE RipupWalk(unbind_node_internal(b, net, cursor).bound, net, src,
                   b[cursor][net].uphill_node)

\* ripup_arc(net, user) on a routed arc of the net record nd
ripup_arc(b, nd, net, user) == RipupWalk(b, net, nd.src_node, nd.arcs[user].sink_node)

----------------------------------------------------------------------------
(* Routing and ripping up arcs in any order (specification SpecArcs) *)

\* All of setup_nets on a netlist, from its k-th net on; st is
\* [udata, by_udata, nets, i]
RECURSIVE SetupNetsFrom(_, _, _)
SetupNetsFrom(st, netlist, k) ==
    IF k > Len(netlist) THEN st
    ELSE SetupNetsFrom(
            [udata |-> [st.udata EXCEPT ![k] = st.i],
             by_udata |-> [st.by_udata EXCEPT ![st.i] = k],
             nets |-> [st.nets EXCEPT ![st.i] = NetRecord(st.nets[st.i], netlist[k])],
             i |-> IF ReachesIncrement(netlist[k]) THEN st.i + 1 ELSE st.i],
            netlist, k + 1)

SetupNets(netlist) ==
    SetupNetsFrom([udata |-> [k \in DOMAIN netlist |-> 0],
                   by_udata |-> [i \in 0..(Len(netlist) - 1) |-> NullNet],
                   nets |-> [i \in 0..(Len(netlist) - 1) |-> ZeroNet],
                   i |-> 0], netlist, 1)

\* Where the placed netlist puts drivers and sinks: the first net is driven
\* from (0, 0, 0) and the second from (0, 0, 1); a sink may be the driver's
\* own node, and (0, 0, 0) cannot be reached from (0, 0, 1)
DriverNode(k) == ChannelNode(0, 0, k - 1)
SinkNodes == {ChannelNode(0, 0, 0), ChannelNode(0, 0, 2), ChannelNode(0, 0, 3)}

\* The netlists the router is run on: the first net has one to MaxArcs
\* users, the second net one user
RouteNetlists ==
    {nl \in [1..2 -> [driver : {DriverNode(1), DriverNode(2)},
                      users : UNION {[1..n -> SinkNodes] : n \in 1..MaxArcs}]] :
        /\ \A k \in 1..2 : nl[k].driver = DriverNode(k)
        /\ Len(nl[2].users) = 1}

\* The arcs of the netlist: <<udata, user>>
Arcs == {<<net, user>> : net \in DOMAIN nets, user \in 1..MaxArcs + 1} \cap
        UNION {{<<net, user>> : user \in DOMAIN nets[net].arcs} : net \in DOMAIN nets}

NoOp == [op |-> "none", net |-> 0, user |-> 0, path |-> <<>>]

\* The search's view of the router for an arc
SearchCx(net, user) ==
    [b |-> bound, net |-> net, nd |-> nets[net], users |-> Len(nets[net].arcs),
     sink |-> nets[net].arcs[user].sink_node, bb |-> nets[net].arcs[user].bb,
     hist |-> hist_cong_cost, ccw |-> curr_cong_weight,
     unav |-> unavailable, resv |-> reserved_net]

\* The state after setup_nodes and setup_nets, nothing bound yet
InitRouter ==
    /\ g_width = RouteW
    /\ g_height = RouteH
    /\ g_channels = RouteChannels
    /\ nodes = RouteGraph.nodes
    /\ sn_pos = <<>>
    /\ sn_status = "done"
    /\ ctx_nets \in RouteNetlists
    /\ net_udata = SetupNets(ctx_nets).udata
    /\ nets_by_udata = SetupNets(ctx_nets).by_udata
    /\ nets = SetupNets(ctx_nets).nets
    /\ ns_i = SetupNets(ctx_nets).i
    /\ ns_k = Len(ctx_nets) + 1
    /\ ns_status = "done"
    /\ bound = Unbound
    /\ bind_log = NoLog
    /\ bind_err = "none"
    /\ hist_cong_cost = [n \in RouteNodes |-> 1]
    /\ arc_path = [a \in Arcs |-> <<>>]
    /\ route_count = 0
    /\ last_op = NoOp

InitArcs ==
    /\ IdleQueue
    /\ IdleSettings
    /\ InitRouter
    /\ IdleRun
    /\ unavailable = {}
    /\ reserved_net = [n \in RouteNodes |-> -1]
    /\ curr_cong_weight = init_curr_cong

\* The search of an unrouted arc, once more with the grown bounding box
\* when it fails; the path found is bound, and an arc whose searches both
\* empty the queue is left unrouted (ArcUnroutable)
RouteArc(net, user) ==
    /\ bind_err = "none"
    /\ ~nets[net].arcs[user].routed
    /\ route_count < MaxRoutes
    /\ LET r == SearchWithRetry(SearchCx(net, user))
           p == IF r.found
                THEN BindPath(bound, r.visit, net, nets[net].src_node,
                              nets[net].arcs[user].sink_node, NumRouteNodes)
                ELSE [ok |-> TRUE, bound |-> bound, path |-> <<>>]
       IN  /\ bound' = p.bound
           /\ bind_err' = IF p.ok THEN "none" ELSE "assert"
           /\ nets' = [nets EXCEPT ![net].arcs[user].routed = r.found /\ p.ok]
           /\ arc_path' = [arc_path EXCEPT ![<<net, user>>] = p.path]
           /\ last_op' = [op |-> IF r.found THEN "route" ELSE "unroutable",
                          net |-> net, user |-> user, path |-> p.path]
    /\ route_count' = route_count + 1
    /\ UNCHANGED <<bind_log, hist_cong_cost, unavailable, reserved_net, curr_cong_weight>>
    /\ UNCHANGED <<ctx_nets, net_udata, nets_by_udata, ns_i, ns_k, ns_status>>
    /\ UNCHANGED <<route_others, run_vars>>

\* ripup_arc on a routed arc
RipupArc(net, user) ==
    /\ bind_err = "none"
    /\ nets[net].arcs[user].routed
    /\ LET r == ripup_arc(bound, nets[net], net, user)
       IN  /\ bound' = r.bound
           /\ bind_err' = IF r.ok THEN "none" ELSE "out_of_range"
           /\ nets' = [nets EXCEPT ![net].arcs[user].routed = ~r.ok]
           /\ arc_path' = [arc_path EXCEPT ![<<net, user>>] = IF r.ok THEN <<>> ELSE @]
    /\ last_op' = [op |-> "ripup", net |-> net, user |-> user,
                   path |-> arc_path[<<net, user>>]]
    /\ UNCHANGED <<bind_log, hist_cong_cost, unavailable, reserved_net, curr_cong_weight,
                   route_count>>
    /\ UNCHANGED <<ctx_nets, net_udata, nets_by_udata, ns_i, ns_k, ns_status>>
    /\ UNCHANGED <<route_others, run_vars>>

NextArcs ==
    \/ \E a \in Arcs : RouteArc(a[1], a[2])
    \/ \E a \in Arcs : RipupArc(a[1], a[2])

SpecArcs == InitArcs /\ [][NextArcs]_vars

Range(seq) == {seq[i] : i \in DOMAIN seq}

----------------------------------------------------------------------------
(* The outer negotiated-congestion loop (design document, sections 4.6, 4.7) *)

\* cfg.max_iter
MaxIter == 3

\* The nodes the device may restrict: neither is a driver's node
RestrictNodes == {ChannelNode(0, 0, 2), ChannelNode(0, 0, 3)}

\* What the device says of a node: nothing, locked out, or held for a net
Restrictions ==
    {r \in [unavailable : BOOLEAN, reserved_net : {-1} \cup NetIds] :
        ~(r.unavailable /\ r.reserved_net # -1)}

BoxArea(bb) == (bb.x1 - bb.x0 + 1) * (bb.y1 - bb.y0 + 1)

\* Nets by decreasing bounding-box area, ties to the lower net id
RECURSIVE NetOrder(_)
NetOrder(S) ==
    IF S = {} THEN <<>>
    ELSE LET first == CHOOSE n \in S : \A m \in S \ {n} :
                          \/ BoxArea(nets[n].bb) > BoxArea(nets[m].bb)
                          \/ BoxArea(nets[n].bb) = BoxArea(nets[m].bb) /\ n < m
         IN  <<first>> \o NetOrder(S \ {first})

\* The square of the straight-line distance of the arc's sink from the driver
Distance2(net, user) ==
    LET src == nets[net].src_node
        dst == nets[net].arcs[user].sink_node
    IN  (NodeX(dst) - NodeX(src)) * (NodeX(dst) - NodeX(src))
        + (NodeY(dst) - NodeY(src)) * (NodeY(dst) - NodeY(src))

\* The arcs of a net by increasing distance from the driver, ties to the
\* lower user index
RECURSIVE ArcOrder(_, _)
ArcOrder(net, U) ==
    IF U = {} THEN <<>>
    ELSE LET first == CHOOSE u \in U : \A v \in U \ {u} :
                          \/ Distance2(net, u) < Distance2(net, v)
                          \/ Distance2(net, u) = Distance2(net, v) /\ u < v
         IN  <<<<net, first>>>> \o ArcOrder(net, U \ {first})

RECURSIVE ConcatArcs(_, _)
ConcatArcs(order, k) ==
    IF k > Len(order) THEN <<>>
    ELSE ArcOrder(order[k], DOMAIN nets[order[k]].arcs) \o ConcatArcs(order, k + 1)

\* The arcs in the order one outer iteration visits them
VisitOrder == ConcatArcs(NetOrder(DOMAIN nets), 1)

\* over(n): over_capacity as a net bound at the node sees it; a node
\* nothing is bound at is seen by no net
NodeOver(b, n) ==
    IF DOMAIN b[n] = {} THEN over_capacity(b[n], NodeType(n), -1)
    ELSE over_capacity(b[n], NodeType(n), CHOOSE net \in DOMAIN b[n] : TRUE)

\* The nodes with over_capacity > 0
OverNodes(b) == {n \in RouteNodes : NodeOver(b, n) > 0}

\* Any node on the arc's path is over-capacity
PathOver(net, user) ==
    \E n \in Range(arc_path[<<net, user>>]) : over_capacity(bound[n], NodeType(n), net) > 0

InitRun ==
    /\ IdleQueue
    /\ IdleSettings
    /\ InitRouter
    /\ \E r \in [RestrictNodes -> Restrictions] :
          /\ unavailable = {n \in RestrictNodes : r[n].unavailable}
          /\ reserved_net = [n \in RouteNodes |->
                                IF n \in RestrictNodes THEN r[n].reserved_net ELSE -1]
    /\ curr_cong_weight = init_curr_cong
    /\ iter = 1
    /\ run_pos = 1
    /\ run_status = "routing"
    /\ enqueued = {}

AtArc == run_status = "routing" /\ bind_err = "none" /\ run_pos <= Len(VisitOrder)
AtIterationEnd == run_status = "routing" /\ bind_err = "none" /\ run_pos > Len(VisitOrder)

\* The second half of the loop body: the arc is searched and bound from
\* the binding map b
SearchAndBind(b, net, user) ==
    LET r == SearchWithRetry([SearchCx(net, user) EXCEPT !.b = b])
        p == IF r.found
             THEN BindPath(b, r.visit, net, nets[net].src_node,
                           nets[net].arcs[user].sink_node, NumRouteNodes)
             ELSE [ok |-> TRUE, bound |-> b, path |-> <<>>]
    IN  /\ bound' = p.bound
        /\ bind_err' = IF p.ok THEN "none" ELSE "assert"
        /\ nets' = [nets EXCEPT ![net].arcs[user].routed = r.found /\ p.ok]
        /\ arc_path' = [arc_path EXCEPT ![<<net, user>>] = p.path]
        /\ last_op' = [op |-> IF r.found THEN "route" ELSE "unroutable",
                       net |-> net, user |-> user, path |-> p.path]
        /\ enqueued' = enqueued \cup {<<net, n>> : n \in r.touched}
        /\ route_count' = route_count + 1

\* The loop body on a routed arc with no over-capacity node on its path
KeepArc ==
    /\ AtArc
    /\ LET a == VisitOrder[run_pos]
       IN  /\ nets[a[1]].arcs[a[2]].routed
           /\ ~PathOver(a[1], a[2])
    /\ run_pos' = run_pos + 1
    /\ UNCHANGED <<iter, run_status, enqueued>>
    /\ UNCHANGED <<route_others, nets_vars, bind_vars, route_vars>>

\* The loop body on a routed arc with an over-capacity node on its path:
\* ripped up and searched again
RerouteArc ==
    /\ AtArc
    /\ LET a == VisitOrder[run_pos]
           r == ripup_arc(bound, nets[a[1]], a[1], a[2])
       IN  /\ nets[a[1]].arcs[a[2]].routed
           /\ PathOver(a[1], a[2])
           /\ IF r.ok THEN SearchAndBind(r.bound, a[1], a[2])
              ELSE /\ bound' = r.bound
                   /\ bind_err' = "out_of_range"
                   /\ UNCHANGED <<nets, arc_path, last_op, enqueued, route_count>>
    /\ run_pos' = run_pos + 1
    /\ UNCHANGED <<iter, run_status>>
    /\ UNCHANGED <<bind_log, hist_cong_cost, unavailable, reserved_net, curr_cong_weight>>
    /\ UNCHANGED <<ctx_nets, net_udata, nets_by_udata, ns_i, ns_k, ns_status>>
    /\ UNCHANGED route_others

\* The loop body on an arc that is not routed
RouteUnrouted ==
    /\ AtArc
    /\ LET a == VisitOrder[run_pos]
       IN  /\ ~nets[a[1]].arcs[a[2]].routed
           /\ SearchAndBind(bound, a[1], a[2])
    /\ run_pos' = run_pos + 1
    /\ UNCHANGED <<iter, run_status>>
    /\ UNCHANGED <<bind_log, hist_cong_cost, unavailable, reserved_net, curr_cong_weight>>
    /\ UNCHANGED <<ctx_nets, net_udata, nets_by_udata, ns_i, ns_k, ns_status>>
    /\ UNCHANGED route_others

\* overflow == 0: return Success
RunSuccess ==
    /\ AtIterationEnd
    /\ Cardinality(OverNodes(bound)) = 0
    /\ run_status' = "Success"
    /\ UNCHANGED <<iter, run_pos, enqueued>>
    /\ UNCHANGED <<route_others, nets_vars, bind_vars, route_vars>>

\* The history and the weight after an iteration that left overflow
EndIteration ==
    /\ hist_cong_cost' = [n \in RouteNodes |->
          IF n \in OverNodes(bound)
          THEN hist_cong_cost[n] + init_hist_cong * NodeOver(bound, n)
          ELSE hist_cong_cost[n]]
    /\ curr_cong_weight' = curr_cong_weight * curr_cong_mult
    /\ UNCHANGED <<unavailable, reserved_net, arc_path, route_count, last_op, enqueued>>
    /\ UNCHANGED <<route_others, nets_vars, bind_vars>>

\* overflow > 0 before max_iter: the next iteration
NextIteration ==
    /\ AtIterationEnd
    /\ Cardinality(OverNodes(bound)) > 0
    /\ iter < MaxIter
    /\ EndIteration
    /\ iter' = iter + 1
    /\ run_pos' = 1
    /\ UNCHANGED run_status

\* overflow > 0 at max_iter: return Failure(overflow)
RunFailure ==
    /\ AtIterationEnd
    /\ Cardinality(OverNodes(bound)) > 0
    /\ iter = MaxIter
    /\ EndIteration
    /\ run_status' = "Failure"
    /\ UNCHANGED <<iter, run_pos>>

Next ==
    \/ KeepArc
    \/ RerouteArc
    \/ RouteUnrouted
    \/ RunSuccess
    \/ NextIteration
    \/ RunFailure

Spec == InitRun /\ [][Next]_vars

----------------------------------------------------------------------------
(* The binding map and the routed arcs (C1, C2, C4, C10) *)

RoutedArcs == {a \in Arcs : nets[a[1]].arcs[a[2]].routed}

\* The routed arcs of net whose path passes through n
ArcsThrough(net, n) == {a \in RoutedArcs : a[1] = net /\ n \in Range(arc_path[a])}

C2_UseCountIsArcCount ==
    \A n \in RouteNodes : \A net \in DOMAIN nets :
        /\ IsBound(bound, net, n) <=> ArcsThrough(net, n) # {}
        /\ IsBound(bound, net, n) => bound[n][net].use_count = Cardinality(ArcsThrough(net, n))

\* The same for every node but the net's driver
C2_UseCountOffDriver ==
    \A net \in DOMAIN nets : \A n \in RouteNodes \ {nets[net].src_node} :
        /\ IsBound(bound, net, n) <=> ArcsThrough(net, n) # {}
        /\ IsBound(bound, net, n) => bound[n][net].use_count = Cardinality(ArcsThrough(net, n))

\* Following uphill_node from cursor reaches src within fuel steps, through
\* entries of the net only
RECURSIVE WalkReaches(_, _, _, _, _)
WalkReaches(b, net, src, cursor, fuel) ==
    IF cursor = src THEN TRUE
    ELSE IF fuel = 0 \/ ~NodeDataOk(cursor) \/ ~IsBound(b, net, cursor) THEN FALSE
    ELSE WalkReaches(b, net, src, b[cursor][net].uphill_node, fuel - 1)

AllRouted(net) == \A user \in DOMAIN nets[net].arcs : nets[net].arcs[user].routed

\* C4: for a net whose arcs are all routed, following uphill_node from the
\* sink_node of any arc reaches src_node in at most as many steps as there
\* are nodes, and the walk of ripup_arc on any routed arc ends at src_node.
C4_WalkReachesDriver ==
    /\ \A net \in DOMAIN nets : AllRouted(net) =>
          \A user \in DOMAIN nets[net].arcs :
              WalkReaches(bound, net, nets[net].src_node, nets[net].arcs[user].sink_node,
                          NumRouteNodes)
    /\ \A a \in RoutedArcs : ripup_arc(bound, nets[a[1]], a[1], a[2]).ok

\* A net with two routed arcs, one of three nodes, after an arc was ripped up
\* and routed again
C4_Witness ==
    /\ bind_err = "none"
    /\ route_count >= 3
    /\ \E net \in DOMAIN nets :
          /\ AllRouted(net)
          /\ Len(nets[net].arcs) = 2
          /\ \E user \in DOMAIN nets[net].arcs : Len(arc_path[<<net, user>>]) >= 3

\* C10 as claimed: every node bound to a net on a routed arc's path is in
\* the downhill list of the uphill_node stored for the net at it.
C10_TreeEdgesInGraph ==
    \A a \in RoutedArcs : \A m \in Range(arc_path[a]) :
        IsBound(bound, a[1], m) /\ m \in Range(Downhill(bound[m][a[1]].uphill_node))

\* C10 amended: the same for every node of the path but the driver, whose
\* stored uphill is the driver itself.
C10_TreeEdgesOffDriver ==
    \A a \in RoutedArcs : \A m \in Range(arc_path[a]) \ {nets[a[1]].src_node} :
        IsBound(bound, a[1], m) /\ m \in Range(Downhill(bound[m][a[1]].uphill_node))

\* A routed arc of three nodes
C10_Witness ==
    \E a \in RoutedArcs : Len(arc_path[a]) >= 3 /\ bind_err = "none"

----------------------------------------------------------------------------
(* The outer loop's result and the restricted nodes (C8, C9) *)

\* No node holds more nets than its type's width
Legal ==
    \A n \in RouteNodes :
        Cardinality(DOMAIN bound[n]) <= RouteChannels[NodeType(n)].width

\* C8: the outer loop returns Success exactly when, at the end of an outer
\* iteration, no node holds more nets than its type's width: Success is
\* returned on a legal binding map only, and the loop goes on to the next
\* iteration or returns Failure on an illegal one only.
C8_SuccessIffLegal ==
    /\ run_status = "Success" => Legal
    /\ run_status = "Failure" => ~Legal
    /\ (run_status = "routing" /\ iter > 1 /\ run_pos = 1) => ~Legal

\* A run that returns Success in a later iteration, with two nets on one
\* node of width 2
C8_Witness ==
    /\ run_status = "Success"
    /\ iter > 1
    /\ \E n \in RouteNodes : Cardinality(DOMAIN bound[n]) = 2

----------------------------------------------------------------------------
(* The search over the whole grid (C11) *)

\* The bounding box that covers the grid
WholeGrid == [x0 |-> 0, y0 |-> 0, x1 |-> RouteW - 1, y1 |-> RouteH - 1]

\* The search of an arc with the whole grid as its bounding box
SearchWhole(net, user) == Search([SearchCx(net, user) EXCEPT !.bb = WholeGrid])

\* The nodes reached from S along downhill edges that end in allowed
RECURSIVE ClosureOver(_, _)
ClosureOver(S, allowed) ==
    LET more == {m \in allowed : \E n \in S : m \in Range(Downhill(n))}
    IN  IF more \subseteq S THEN S ELSE ClosureOver(S \cup more, allowed)

\* The driver and the nodes already bound to the net
TreeNodes(net) == {nets[net].src_node} \cup {n \in RouteNodes : net \in DOMAIN bound[n]}

\* The nodes the device lets the net use
UsableNodes(net) ==
    {m \in RouteNodes : m \notin unavailable /\ reserved_net[m] \in {-1, net}}

\* C11 as claimed: a search whose bounding box is the whole grid reaches
\* the arc's sink if and only if the sink is reachable from the driver or
\* a node bound to the net along downhill edges of the channel graph.
C11_FoundIffReachable ==
    \A a \in Arcs :
        SearchWhole(a[1], a[2]).found <=>
            nets[a[1]].arcs[a[2]].sink_node \in ClosureOver(TreeNodes(a[1]), RouteNodes)

\* C11 (amended): a search whose bounding box is the whole grid reaches
\* the arc's sink if and only if the sink is reachable from the driver or
\* a node bound to the net along downhill edges into nodes that are
\* neither unavailable nor reserved for another net.
C11_FoundIffUsablePath ==
    \A a \in Arcs :
        SearchWhole(a[1], a[2]).found <=>
            nets[a[1]].arcs[a[2]].sink_node
                \in ClosureOver(TreeNodes(a[1]), UsableNodes(a[1]))

\* A state with a node locked out or reserved and an arc routed, in which
\* the whole-grid search reaches the sink of one arc over an edge and not
\* that of another
C11_Witness ==
    /\ \E n \in RouteNodes : n \in unavailable \/ reserved_net[n] # -1
    /\ \E a \in Arcs : nets[a[1]].arcs[a[2]].routed
    /\ \E a \in Arcs :
          /\ SearchWhole(a[1], a[2]).found
          /\ nets[a[1]].arcs[a[2]].sink_node \notin TreeNodes(a[1])
    /\ \E a \in Arcs : ~SearchWhole(a[1], a[2]).found

----------------------------------------------------------------------------
(* The driver in rip-up (C12) *)

\* C12: ripup_arc treats the driver like any other node of the path: a
\* step that rips up a routed arc of a net lowers the net's use_count at
\* its src_node by one (the entry is gone at zero), so that routing an arc
\* and ripping it up leaves the driver's bound_nets as it was.
C12_RipupDecrementsDriver ==
    [][\A a \in Arcs :
          (nets[a[1]].arcs[a[2]].routed /\ ~nets'[a[1]].arcs[a[2]].routed)
              => SourceUses(bound', a[1], nets[a[1]].src_node)
                    = SourceUses(bound, a[1], nets[a[1]].src_node) - 1]_vars

----------------------------------------------------------------------------
(* A bind with another uphill (C13) *)

\* C13: a call of bind_node_internal on an entry with a different
\* uphill_node fails and leaves the binding map as it was before the
\* call: use_count and uphill_node of the entry and the bound_nets of every
\* other node.
C13_FailedBindChangesNothing ==
    [][(bind_err = "none" /\ bind_err' = "assert") => bound' = bound]_vars

\* The part of C13 that holds: a failed bind leaves the entry's uphill_node,
\* the other nets of the node and every other node as they were
C13_FailedBindKeepsUphill ==
    [][(bind_err = "none" /\ bind_err' = "assert") =>
          \A n \in RouteNodes :
              /\ DOMAIN bound'[n] = DOMAIN bound[n]
              /\ \A net \in DOMAIN bound[n] :
                    bound'[n][net].uphill_node = bound[n][net].uphill_node]_vars

----------------------------------------------------------------------------
(* The search queue: std::priority_queue ordered by QueuedNode::Greater
   (specification SpecQueue) *)

\* The most entries the queue holds
MaxQueue == 3

\* The scores and tags the entries are pushed with
Scores == 0..1
Tags == 0..2

QueuedNode(cost, togo_cost, randtag) ==
    [node |-> DefaultNode, prev |-> DefaultNode, cost |-> cost, togo_cost |-> togo_cost,
     randtag |-> randtag]

\* NodeScore::total
Total(e) == e.cost + e.togo_cost

\* The entries top() may return: with Greater as the queue's ordering an
\* entry that is Greater than no entry of the queue
TopEntries(q) == {e \in q : \A x \in q : ~Greater(e, x)}

InitQueue ==
    /\ IdleGraph
    /\ IdleNets
    /\ IdleBind
    /\ IdleRoute
    /\ IdleSettings
    /\ pq = {}
    /\ pq_top = <<>>

\* push
Push(cost, togo_cost, randtag) ==
    /\ Cardinality(pq) < MaxQueue
    /\ QueuedNode(cost, togo_cost, randtag) \notin pq
    /\ pq' = pq \cup {QueuedNode(cost, togo_cost, randtag)}
    /\ pq_top' = <<>>
    /\ UNCHANGED queue_others

\* top and pop
Pop ==
    /\ pq # {}
    /\ \E e \in TopEntries(pq) :
          /\ pq' = pq \ {e}
          /\ pq_top' = <<e>>
    /\ UNCHANGED queue_others

NextQueue ==
    \/ \E cost \in Scores, togo_cost \in Scores, randtag \in Tags : Push(cost, togo_cost, randtag)
    \/ Pop

SpecQueue == InitQueue /\ [][NextQueue]_vars

\* C14: the queue pops an entry whose total f = cost + togo_cost is the
\* least of the queue, and among the entries with that f the one with the
\* larger random tag first.
C14_LargerTagFirst ==
    pq_top # <<>> =>
        \A x \in pq :
            /\ Total(pq_top[1]) <= Total(x)
            /\ Total(pq_top[1]) = Total(x) => pq_top[1].randtag >= x.randtag

\* The part of C14 that holds: the entry popped has the least f, and among
\* the entries with that f the smaller tag
C14_SmallerTagFirst ==
    pq_top # <<>> =>
        \A x \in pq :
            /\ Total(pq_top[1]) <= Total(x)
            /\ Total(pq_top[1]) = Total(x) => pq_top[1].randtag <= x.randtag

----------------------------------------------------------------------------
(* The present cost and the togo cost (C15, C16) *)

\* C15: for every node state w, channel type t and net N present_node_cost
\* is 1 when over = |w.bound_nets| - (width(t) - 1) - [N in w.bound_nets]
\* is <= 0 and 1 + over * curr_cong_weight otherwise, and it is 1 exactly
\* when the nets at the node, N counted as bound, are no more than width(t).
C15_PresentCost ==
    \A n \in RouteNodes : \A net \in NetIds :
        LET w == bound[n]
            width == RouteChannels[NodeType(n)].width
            over == Cardinality(DOMAIN w) - (width - 1) - (IF net \in DOMAIN w THEN 1 ELSE 0)
            cost == present_node_cost(w, NodeType(n), net, curr_cong_weight)
        IN  /\ over <= 0 => cost = 1
            /\ over > 0 => cost = 1 + over * curr_cong_weight
            /\ cost = 1 <=> Cardinality(DOMAIN w \cup {net}) <= width

\* A node whose present cost for a net is above 1 with the weight grown,
\* and a node that holds two nets and costs 1 for each of them
C15_Witness ==
    /\ curr_cong_weight > init_curr_cong
    /\ \E n \in RouteNodes : \E net \in NetIds :
          present_node_cost(bound[n], NodeType(n), net, curr_cong_weight) > 1
    /\ \E n \in RouteNodes :
          /\ Cardinality(DOMAIN bound[n]) = 2
          /\ \A net \in DOMAIN bound[n] :
                present_node_cost(bound[n], NodeType(n), net, curr_cong_weight) = 1

\* The numerator of the togo cost
TogoBase(curr, sink) ==
    togo_cost_dx * Abs(NodeX(curr) - NodeX(sink))
        + togo_cost_dy * Abs(NodeY(curr) - NodeY(sink)) + togo_cost_adder

\* C16: get_togo_cost returns exactly (togo_cost_dx * |dx| + togo_cost_dy *
\* |dy| + togo_cost_adder) / (1 + source_uses), nothing rounded or cut off:
\* the value returned times 1 + source_uses is the numerator.
C16_TogoExact ==
    \A net \in DOMAIN nets : \A curr \in RouteNodes : \A sink \in RouteNodes :
        get_togo_cost(bound, net, curr, sink) * (1 + SourceUses(bound, net, curr))
            = TogoBase(curr, sink)

\* What holds of get_togo_cost: the quotient of the integer division
C16_TogoTruncated ==
    \A net \in DOMAIN nets : \A curr \in RouteNodes : \A sink \in RouteNodes :
        LET r == get_togo_cost(bound, net, curr, sink)
            d == 1 + SourceUses(bound, net, curr)
        IN  r * d <= TogoBase(curr, sink) /\ TogoBase(curr, sink) < (r + 1) * d

----------------------------------------------------------------------------
(* Uphill and downhill after setup_nodes (C17) *)

\* How often v occurs in the list
Occurrences(list, v) == Cardinality({j \in DOMAIN list : list[j] = v})

\* The nodes of the grid that was built
GridNodes ==
    {ChannelNode(x, y, t) : x \in 0..(g_width - 1), y \in 0..(g_height - 1),
                            t \in DOMAIN g_channels}

\* PerNodeData of a node of the grid
NodeData(n) == nodes[NodeY(n) * g_width + NodeX(n)][NodeType(n)]

\* C17: after setup_nodes on a template whose edges all lie inside the
\* grid, m occurs in n.downhill as often as n occurs in m.uphill for all
\* nodes n and m, and every listed neighbour is a node of the grid with a
\* valid type index.
C17_UphillConverse ==
    (sn_status = "done" /\ ~HasOutOfGridEdge(g_width, g_height, g_channels)) =>
        /\ \A n \in GridNodes : \A m \in GridNodes :
              Occurrences(NodeData(n).downhill, m) = Occurrences(NodeData(m).uphill, n)
        /\ \A n \in GridNodes :
              /\ \A j \in DOMAIN NodeData(n).downhill : NodeData(n).downhill[j] \in GridNodes
              /\ \A j \in DOMAIN NodeData(n).uphill : NodeData(n).uphill[j] \in GridNodes

\* A grid built with a neighbour listed twice and two types joined
C17_Witness ==
    /\ sn_status = "done"
    /\ \E n \in GridNodes : \E m \in GridNodes :
          m # n /\ Occurrences(NodeData(n).downhill, m) = 2
    /\ g_width * g_height > 1

----------------------------------------------------------------------------
(* The bounding boxes and the centroid of setup_nets (C18) *)

Least(S) == CHOOSE v \in S : \A u \in S : v <= u
Greatest(S) == CHOOSE v \in S : \A u \in S : v >= u

\* The smallest box that contains the nodes of P
BoxOf(P) ==
    [x0 |-> Least({NodeX(n) : n \in P}), y0 |-> Least({NodeY(n) : n \in P}),
     x1 |-> Greatest({NodeX(n) : n \in P}), y1 |-> Greatest({NodeY(n) : n \in P})]

BoxInside(inner, outer) ==
    /\ outer.x0 <= inner.x0 /\ inner.x1 <= outer.x1
    /\ outer.y0 <= inner.y0 /\ inner.y1 <= outer.y1

\* C18: after setup_nets the record of every net with a driver has as net
\* bounding box the smallest box containing src_node and every sink_node,
\* as each arc's bounding box the smallest box containing src_node and the
\* arc's sink_node, which lies inside the net bounding box, and a centroid
\* inside the net bounding box.
C18_BoxesAndCentroid ==
    ns_status = "done" =>
        \A k \in DOMAIN ctx_nets :
            ctx_nets[k].driver # NoDriver =>
                LET ni == ctx_nets[k]
                    nd == nets[net_udata[k]]
                IN  /\ nd.bb = BoxOf({ni.driver} \cup Range(ni.users))
                    /\ Len(nd.arcs) = Len(ni.users)
                    /\ \A j \in DOMAIN ni.users :
                          /\ nd.arcs[j].bb = BoxOf({ni.driver, ni.users[j]})
                          /\ BoxInside(nd.arcs[j].bb, nd.bb)
                    /\ nd.bb.x0 <= nd.cx /\ nd.cx <= nd.bb.x1
                    /\ nd.bb.y0 <= nd.cy /\ nd.cy <= nd.bb.y1

\* A net with a driver and two sinks, one of them away from the driver,
\* set up after a net without a driver
C18_Witness ==
    /\ ns_status = "done"
    /\ \E k \in DOMAIN ctx_nets :
          /\ k > 1
          /\ ctx_nets[k - 1].driver = NoDriver
          /\ ctx_nets[k].driver # NoDriver
          /\ Len(ctx_nets[k].users) = 2
          /\ ctx_nets[k].users[1] = ctx_nets[k].driver
          /\ ctx_nets[k].users[2] # ctx_nets[k].driver

----------------------------------------------------------------------------
(* Settings::get and Settings::set for int (specification SpecSettings) *)

\* The keys and the integers the calls are made with
SettingNames == {"a", "b"}
SettingValues == {-12, 0, 7, 30}

\* A string is the sequence of its characters
DigitChars == <<"0", "1", "2", "3", "4", "5", "6", "7", "8", "9">>

\* The decimal digits of n >= 0, most significant first
RECURSIVE Digits(_)
Digits(n) ==
    IF n < 10 THEN <<DigitChars[n + 1]>>
    ELSE Append(Digits(n \div 10), DigitChars[(n % 10) + 1])

\* std::to_string that leaves out the sign
to_string_abs(v) == Digits(Abs(v))

\* std::to_string(int)
to_string(v) == IF v < 0 THEN <<"-">> \o Digits(0 - v) ELSE Digits(v)

IsDigit(c) == \E i \in DOMAIN DigitChars : DigitChars[i] = c
DigitOf(c) == (CHOOSE i \in DOMAIN DigitChars : DigitChars[i] = c) - 1

\* The number the digits str[i..] continue acc to
RECURSIVE DigitsValue(_, _, _)
DigitsValue(str, i, acc) ==
    IF i > Len(str) THEN acc
    ELSE DigitsValue(str, i + 1, acc * 10 + DigitOf(str[i]))

\* boost::lexical_cast<int>(str): [ok, value]; ok is FALSE for
\* bad_lexical_cast: no digits, a character that is no digit after the
\* optional sign, or a number that is no int
LexicalCast(str) ==
    LET signed == Len(str) > 0 /\ str[1] \in {"-", "+"}
        first == IF signed THEN 2 ELSE 1
        digits_ok == first <= Len(str) /\ \A i \in first..Len(str) : IsDigit(str[i])
        mag == DigitsValue(str, first, 0)
        value == IF signed /\ str[1] = "-" THEN 0 - mag ELSE mag
    IN  IF digits_ok /\ value >= IntMin /\ value <= IntMax
        THEN [ok |-> TRUE, value |-> value]
        ELSE [ok |-> FALSE, value |-> 0]

\* Settings::get<int>(name, defaultValue) on the settings st: [ret, settings]
SettingsGet(st, name, defaultValue) ==
    IF name \in DOMAIN st
    THEN [ret |-> IF LexicalCast(st[name]).ok THEN LexicalCast(st[name]).value
                  ELSE defaultValue,
          settings |-> st]
    ELSE [ret |-> defaultValue,
          settings |-> [k \in (DOMAIN st) \cup {name} |->
                           IF k = name THEN to_string(defaultValue) ELSE st[k]]]

\* Settings::set<int>(name, value)
SettingsSet(st, name, value) ==
    [k \in (DOMAIN st) \cup {name} |-> IF k = name THEN to_string(value) ELSE st[k]]

InitSettings ==
    /\ IdleGraph
    /\ IdleNets
    /\ IdleBind
    /\ IdleRoute
    /\ IdleQueue
    /\ settings = <<>>
    /\ last_get = <<>>
    /\ held = <<>>

Get(name, defaultValue) ==
    /\ LET r == SettingsGet(settings, name, defaultValue)
       IN  /\ settings' = r.settings
           /\ last_get' = [name |-> name, defaultValue |-> defaultValue, ret |-> r.ret]
    /\ held' = IF name \in DOMAIN settings THEN held
               ELSE [k \in (DOMAIN held) \cup {name} |->
                        IF k = name THEN defaultValue ELSE held[k]]
    /\ UNCHANGED settings_others

Set(name, value) ==
    /\ settings' = SettingsSet(settings, name, value)
    /\ last_get' = <<>>
    /\ held' = [k \in (DOMAIN held) \cup {name} |-> IF k = name THEN value ELSE held[k]]
    /\ UNCHANGED settings_others

NextSettings ==
    \/ \E name \in SettingNames, defaultValue \in SettingValues : Get(name, defaultValue)
    \/ \E name \in SettingNames, value \in SettingValues : Set(name, value)

SpecSettings == InitSettings /\ [][NextSettings]_vars

\* C19: get(name, d) on an absent key stores d under the key and returns
\* d, every later get(name, d2) returns that first d whatever d2 is, and
\* after set(name, v) every get(name, d) returns v: a get returns the
\* integer the key was last given by set or by its first get, and the key
\* holds that integer's string.
C19_GetReturnsHeld ==
    /\ last_get # <<>> => last_get.ret = held[last_get.name]
    /\ DOMAIN settings = DOMAIN held
    /\ \A name \in DOMAIN settings : settings[name] = to_string(held[name])

\* A get that returned a negative number of two digits where its default
\* was another number
C19_Witness ==
    /\ last_get # <<>>
    /\ last_get.ret # last_get.defaultValue
    /\ last_get.ret < -9

====
